---- MODULE Spec2Model ----
(***************************************************************************)
(* Model of mlens/parallel/estimation.py: the parallel estimation engine   *)
(* of a layer (BaseEstimator.fit and the task routines fit_trans, fit_est, *)
(* _load_trans), the index algebra (_slice_array), the prediction assembly *)
(* (_assign_predictions) and the score aggregation (_build_scores).        *)
(*                                                                         *)
(* Conventions.  A Python str is a sequence of one-character strings, so   *)
(* that formatting ('%s__t' % case), str.split and str.join are computed   *)
(* character by character.  A Python array is a sequence; Python index i   *)
(* is position i+1.                                                          *)
(***************************************************************************)
EXTENDS Integers, Sequences, FiniteSets, TLC

VARIABLES
    cfg,      \* fit pass: the layer, the engine's flags, the fit calls so far
    phase,    \* fit pass: where BaseEstimator.fit is
    tpc,      \* fit pass: position of every fit_trans task
    epc,      \* fit pass: position of every fit_est / _fit task
    eloc,     \* fit pass: the locals of every estimator task (tr_list, s)
    cache,    \* fit pass: the cache directory, a set of [key, val] files
    wrote,    \* fit pass: the tasks that have written to the cache
    pbuf,     \* fit pass: the writes to P: cell, task, element written
    lstate,   \* fit pass: the layer's result slots
    wcfg,     \* bounded wait: ivals, raise_on_exception, the writer's plan
    wpc,      \* bounded wait: position of _load_trans
    now,      \* bounded wait: the clock time_() reads
    ts,       \* bounded wait: local ts
    wraise,   \* bounded wait: local raise_on_exception
    warns,    \* bounded wait: warnings emitted so far
    wfile,    \* bounded wait: whether the awaited file exists
    wlog,     \* bounded wait: history of the polls of the loop
    arg,      \* pure calls: the arguments of the call
    res,      \* pure calls: the value returned (or the exception raised)
    ppc       \* pure calls: "call" before, "done" after

fitVars == <<cfg, phase, tpc, epc, eloc, cache, wrote, pbuf, lstate>>
waitVars == <<wcfg, wpc, now, ts, wraise, warns, wfile, wlog>>
pureVars == <<arg, res, ppc>>
vars == <<cfg, phase, tpc, epc, eloc, cache, wrote, pbuf, lstate,
          wcfg, wpc, now, ts, wraise, warns, wfile, wlog, arg, res, ppc>>

(***************************************************************************)
(* Bounds of the model.                                                    *)
(***************************************************************************)
MaxFolds == 2        \* folds of a layer: 1 .. MaxFolds
RowsPerFold == 2     \* rows of every test partition
MaxInst == 1         \* instances of a case: 0 .. MaxInst
NJobs == 2           \* workers of the parallel executor
MaxIval == 2         \* poll interval s of a wait: 1 .. MaxIval
MaxLim == 3          \* timeout limit lim of a wait: 0 .. MaxLim
MaxStart == 1        \* clock reading when a wait is called: 0 .. MaxStart
MaxJitter == 1       \* ticks by which a sleep may overrun: 0 .. MaxJitter
MaxLen == 3          \* rows of an array handed to _slice_array
MaxRows == 2         \* rows of a prediction buffer
MaxOffset == 1       \* row offset r: 0 .. MaxOffset
MaxCols == 4         \* columns of a prediction buffer
MaxWidth == 2        \* columns of a 2-D prediction
MaxScore == 2        \* fold scores are 0 .. MaxScore
MaxExtra == 2        \* rows by which y may be longer than the longest X
MaxFits == 2         \* fit calls on one layer

(***************************************************************************)
(* Python values.                                                          *)
(***************************************************************************)
\* None where a str is expected (a case name), and None where an array is
\* expected (y, pred): arrays hold naturals, so neither is a real value.
None == <<"#None">>

NoArr == <<-1>>

Min(S) == CHOOSE x \in S : \A y \in S : x <= y

\* Python str of small values: the '%s' and '%i' conversions.
S_None == <<"N", "o", "n", "e">>

Digits == <<"0", "1", "2", "3", "4", "5", "6", "7", "8", "9">>

RECURSIVE IntStr(_)
IntStr(i) ==
    IF i < 10 THEN <<Digits[i + 1]>>
    ELSE IntStr(i \div 10) \o <<Digits[(i % 10) + 1]>>

FmtS(v) == IF v = None THEN S_None ELSE v

U2 == <<"_", "_">>

U3 == <<"_", "_", "_">>

\* s.find(sep) + 1, 0 when sep does not occur.
Find(s, sep) ==
    LET I == {i \in 1..(Len(s) - Len(sep) + 1) :
                 SubSeq(s, i, i + Len(sep) - 1) = sep}
    IN IF I = {} THEN 0 ELSE Min(I)

\* s.split(sep): leftmost, non-overlapping.
RECURSIVE Split(_, _)
Split(s, sep) ==
    LET i == Find(s, sep)
    IN IF i = 0 THEN <<s>>
       ELSE <<SubSeq(s, 1, i - 1)>> \o
            Split(SubSeq(s, i + Len(sep), Len(s)), sep)

\* sep.join(parts)
RECURSIVE Join(_, _)
Join(parts, sep) ==
    IF Len(parts) = 0 THEN <<>>
    ELSE IF Len(parts) = 1 THEN parts[1]
    ELSE parts[1] \o sep \o Join(Tail(parts), sep)

\* sep in s
Contains(s, sep) == Find(s, sep) # 0

RECURSIVE Flatten(_)
Flatten(ss) == IF Len(ss) = 0 THEN <<>> ELSE Head(ss) \o Flatten(Tail(ss))

Range(f) == {f[i] : i \in DOMAIN f}

(***************************************************************************)
(* Arrays and numpy indexing.                                              *)
(***************************************************************************)
\* np.arange(a, b)
Arange(a, b) == [k \in 1..(IF b > a THEN b - a ELSE 0) |-> a + k - 1]

\* slice(a, b).indices(L): a negative bound counts from the end, both are
\* clipped to [0, L].
SliceBound(i, L) ==
    IF i < 0 THEN (IF i + L < 0 THEN 0 ELSE i + L)
    ELSE (IF i > L THEN L ELSE i)

\* x[slice(a, b)]: basic slicing, never raises.
PySlice(x, a, b) ==
    SubSeq(x, SliceBound(a, Len(x)) + 1, SliceBound(b, Len(x)))

\* x[ix] for an integer array ix: advanced indexing, raises IndexError on an
\* index outside [-len, len).
GatherOk(x, ix) == \A k \in 1..Len(ix) : ix[k] >= -Len(x) /\ ix[k] < Len(x)

Gather(x, ix) ==
    [k \in 1..Len(ix) |-> x[((ix[k] + Len(x)) % Len(x)) + 1]]

\* An index descriptor: None, a tuple (a, b), or a tuple of tuples
\* ((a, b), ..).  kind stands for what isinstance(idx[0], tuple) reads.
NoIdx == [kind |-> "none", t |-> <<>>]

RangeIdx(a, b) == [kind |-> "range", t |-> <<a, b>>]

RangesIdx(rs) == [kind |-> "ranges", t |-> rs]

\* _slice_array resolving every descriptor by basic slicing on its first
\* range.
SliceFirstRange(x, y, idx, r) ==
    IF idx.kind = "none" THEN [err |-> "", x |-> x, y |-> y, copy |-> FALSE]
    ELSE LET t == IF idx.kind = "ranges" THEN idx.t[1] ELSE idx.t
         IN [err |-> "", x |-> PySlice(x, t[1] - r, t[2] - r),
             y |-> IF y # NoArr THEN PySlice(y, t[1] - r, t[2] - r) ELSE y,
             copy |-> FALSE]

\* _slice_array(x, y, idx, r).  The result records the exception raised
\* (err) and whether the rows were gathered into a copy.
SliceArray(x, y, idx, r) ==
    IF idx.kind = "none" THEN [err |-> "", x |-> x, y |-> y, copy |-> FALSE]
    ELSE IF idx.kind = "ranges" /\ Len(idx.t[1]) > 1 THEN
        LET ix == Flatten([k \in 1..Len(idx.t) |->
                              Arange(idx.t[k][1] - r, idx.t[k][2] - r)])
        IN IF ~GatherOk(x, ix) \/ (y # NoArr /\ ~GatherOk(y, ix))
           THEN [err |-> "IndexError", x |-> <<>>, y |-> NoArr, copy |-> TRUE]
           ELSE [err |-> "", x |-> Gather(x, ix),
                 y |-> IF y # NoArr THEN Gather(y, ix) ELSE y, copy |-> TRUE]
    ELSE
        LET t == IF idx.kind = "ranges" THEN idx.t[1] ELSE idx.t
        IN [err |-> "", x |-> PySlice(x, t[1] - r, t[2] - r),
            y |-> IF y # NoArr THEN PySlice(y, t[1] - r, t[2] - r) ELSE y,
            copy |-> FALSE]

\* The buffer rows addressed when the row offset is left out.
AssignRowsNoOffset(R, tei, r) ==
    LET rs == IF tei.kind = "range" THEN <<tei.t>> ELSE tei.t
        ix == Flatten([k \in 1..Len(rs) |-> Arange(rs[k][1], rs[k][2])])
    IN IF GatherOk(Arange(0, R), ix)
       THEN [err |-> "", rows |-> ix, copy |-> TRUE]
       ELSE [err |-> "IndexError", rows |-> <<>>, copy |-> TRUE]

\* The buffer rows pred[idx] addresses in _assign_predictions, as a
\* sequence of 0-based row numbers, and the path that resolved them.
AssignRows(R, tei, r) ==
    IF tei.kind = "ranges" /\ Len(tei.t) > 1 THEN
        LET ix == Flatten([k \in 1..Len(tei.t) |->
                              Arange(tei.t[k][1] - r, tei.t[k][2] - r)])
        IN IF GatherOk(Arange(0, R), ix)
           THEN [err |-> "", rows |-> Gather(Arange(0, R), ix), copy |-> TRUE]
           ELSE [err |-> "IndexError", rows |-> <<>>, copy |-> TRUE]
    ELSE
        LET t == IF tei.kind = "ranges" THEN tei.t[1] ELSE tei.t
        IN [err |-> "", rows |-> PySlice(Arange(0, R), t[1] - r, t[2] - r),
            copy |-> FALSE]

\* _assign_predictions writing the selected rows in every column.
AssignWholeRows(R, C, L, w, tei, col, n) ==
    LET sel == AssignRows(R, tei, n - R)
    IN IF sel.err # "" \/ (L # Len(sel.rows) /\ L # 1)
       THEN [err |-> "ValueError", cells |-> {}, copy |-> sel.copy]
       ELSE [err |-> "", copy |-> sel.copy,
             cells |-> {[r |-> sel.rows[k], c |-> c, k |-> k - 1, j |-> 0] :
                        k \in 1..Len(sel.rows), c \in 0..(C - 1)}]

\* _assign_predictions(pred, p, tei, col, n) for pred of shape (R, C) and p
\* of shape (L,) when w = 0 and (L, w) otherwise.  cells is the set of
\* buffer cells written, each with the element (k, j) of p stored there.
AssignPredictions(R, C, L, w, tei, col, n) ==
    LET sel == AssignRows(R, tei, n - R)
        m == Len(sel.rows)
        none == [err |-> "ValueError", cells |-> {}, copy |-> sel.copy]
    IN IF sel.err # "" THEN [err |-> sel.err, cells |-> {}, copy |-> sel.copy]
       ELSE IF w = 0 THEN
           IF col < -C \/ col >= C
           THEN [err |-> "IndexError", cells |-> {}, copy |-> sel.copy]
           ELSE IF L # m /\ L # 1 THEN none
           ELSE [err |-> "", copy |-> sel.copy,
                 cells |-> {[r |-> sel.rows[k], c |-> (col + C) % C,
                             k |-> IF L = 1 THEN 0 ELSE k - 1, j |-> 0] :
                            k \in 1..m}]
       ELSE
           LET cols == PySlice(Arange(0, C), col, col + w)
           IN IF (L # m /\ L # 1) \/ (w # Len(cols) /\ w # 1) THEN none
              ELSE [err |-> "", copy |-> sel.copy,
                    cells |-> {[r |-> sel.rows[k], c |-> cols[jj],
                                k |-> IF L = 1 THEN 0 ELSE k - 1,
                                j |-> IF w = 1 THEN 0 ELSE jj - 1] :
                               k \in 1..m, jj \in 1..Len(cols)}]

(***************************************************************************)
(* The layer and its task lists.  _format_instance_list and _get_col_id    *)
(* are abstract in BaseEstimator; the lists below follow the data model of *)
(* the specification (full-data entries first, then one entry per case and *)
(* fold, fold-tagged names, the unnamed case carried as None) in the form  *)
(* fit, _assemble and _build_scores read them.                             *)
(***************************************************************************)
NoScore == -1     \* the score None of an artifact

CaseLists == {<<None>>, <<<<"a">>>>, <<<<"a">>, <<"b">>>>}

InstName(i) == <<"e">> \o IntStr(i)

Named(layer) == layer.cases # <<None>>

\* Rows of X, and rows of the prediction buffer P.  With one fold the split
\* is a hold-out: P covers only the test rows, the last ones of X.
NRows(layer) == IF layer.K = 1 THEN 2 * RowsPerFold ELSE layer.K * RowsPerFold

PRows(layer) == IF layer.K = 1 THEN RowsPerFold ELSE NRows(layer)

PCols(layer) == Len(layer.cases) * layer.ninst

TestIdx(layer, i) ==
    IF layer.K = 1 THEN RangeIdx(RowsPerFold, 2 * RowsPerFold)
    ELSE RangeIdx(i * RowsPerFold, (i + 1) * RowsPerFold)

TrainIdx(layer, i) ==
    IF layer.K = 1 THEN RangeIdx(0, RowsPerFold)
    ELSE RangesIdx(
        (IF i > 0 THEN <<<<0, i * RowsPerFold>>>> ELSE <<>>) \o
        (IF i < layer.K - 1
         THEN <<<<(i + 1) * RowsPerFold, NRows(layer)>>>> ELSE <<>>))

\* One entry (case, tri, tei, instance_list) of self.e or self.t; ci and
\* fold say which case and fold it was generated for (fold -1: full data).
FullEntry(layer, ci) ==
    [case |-> layer.cases[ci], tri |-> NoIdx, tei |-> NoIdx,
     names |-> [k \in 1..layer.ninst |-> InstName(k)],
     ci |-> ci, fold |-> -1]

FoldEntry(layer, ci, i) ==
    [case |-> IF Named(layer) THEN layer.cases[ci] \o U2 \o IntStr(i)
              ELSE None,
     tri |-> TrainIdx(layer, i), tei |-> TestIdx(layer, i),
     names |-> [k \in 1..layer.ninst |-> InstName(k) \o U2 \o IntStr(i)],
     ci |-> ci, fold |-> i]

Entries(layer) ==
    LET nc == Len(layer.cases)
    IN [j \in 1..(nc * (1 + layer.K)) |->
           IF j <= nc THEN FullEntry(layer, j)
           ELSE FoldEntry(layer, ((j - nc - 1) \div layer.K) + 1,
                          (j - nc - 1) % layer.K)]

\* self.c[case, inst_name]: one column per (case, instance), shared by the
\* full-data fit and the fold fits of that instance.
ColId(layer, ci, ii) == (ci - 1) * layer.ninst + (ii - 1)

\* The estimator tasks in the order of the generator of fit:
\* for case, tri, tei, instance_list in self.e
\* for inst_name, instance in instance_list.
EstTasks(layer) ==
    LET es == Entries(layer)
    IN [j \in 1..(Len(es) * layer.ninst) |->
           LET e == es[((j - 1) \div layer.ninst) + 1]
               ii == ((j - 1) % layer.ninst) + 1
           IN [case |-> e.case, name |-> e.names[ii], tri |-> e.tri,
               tei |-> e.tei, col |-> ColId(layer, e.ci, ii),
               ci |-> e.ci, ii |-> ii, fold |-> e.fold]]

\* The transformer tasks: one per entry of self.t, none when self.t is None.
TransTasks(layer) == IF layer.prep THEN Entries(layer) ELSE <<>>

\* layer.n_pred: the full-data estimator slots.
NPred(layer) == Len(layer.cases) * layer.ninst

\* layer.n_prep: the full-data preprocessing slots.
NPrep(layer) == IF layer.prep THEN Len(layer.cases) ELSE 0

(***************************************************************************)
(* Cache keys and the cache.                                               *)
(***************************************************************************)
\* os.path.join(dir, '%s__t' % case)
TransKey(case) == FmtS(case) \o U2 \o <<"t">>

\* An estimator key built from the case alone.
EstKeyCaseOnly(case, name) == FmtS(case) \o U2 \o <<"e">>

\* os.path.join(dir, '%s__%s__e' % (case, inst_name))
EstKey(case, name) == FmtS(case) \o U2 \o name \o U2 \o <<"e">>

\* pickle_save / pickle_load / os.path.exists on the cache directory: a
\* write replaces the file of that name and is visible once it returns.
Exists(c, key) == \E f \in c : f.key = key

Load(c, key) == (CHOOSE f \in c : f.key = key).val

Put(c, key, val) == {f \in c : f.key # key} \cup {[key |-> key, val |-> val]}

(***************************************************************************)
(* Score aggregation.                                                      *)
(***************************************************************************)
RECURSIVE SumSeq(_)
SumSeq(v) == IF Len(v) = 0 THEN 0 ELSE Head(v) + SumSeq(Tail(v))

RECURSIVE Gcd(_, _)
Gcd(a, b) == IF b = 0 THEN a ELSE Gcd(b, a % b)

\* A non-negative rational p/q in lowest terms.
Ratio(p, q) == LET g == Gcd(p, q) IN <<p \div g, q \div g>>

NaN == <<0, 0>>

\* (np.mean(v), np.std(v)) of a list of numbers.  The deviation is carried
\* by its square, the population variance; an empty list gives (nan, nan).
MeanStd(v) ==
    IF Len(v) = 0 THEN [mean |-> NaN, var |-> NaN]
    ELSE LET n == Len(v)
             sm == SumSeq(v)
             sq == SumSeq([k \in 1..n |-> v[k] * v[k]])
         IN [mean |-> Ratio(sm, n), var |-> Ratio(n * sq - sm * sm, n * n)]

\* The first loop of _build_scores: the shell dictionary.
RECURSIVE SeedScores(_, _, _)
SeedScores(s, n, acc) ==
    IF acc.err # "" \/ Len(s) = 0 \/ n = 0 THEN acc
    ELSE LET parts == Split(Head(s).k, U3)
         IN IF Len(parts) # 2
            THEN [err |-> "ValueError", d |-> acc.d]
            ELSE LET name == IF parts[1] = <<>> THEN parts[2]
                             ELSE parts[1] \o U2 \o parts[2]
                 IN SeedScores(Tail(s), n - 1,
                               [err |-> "", d |-> (name :> <<>>) @@ acc.d])

\* The display name the second loop derives from a fold entry's key.
FoldName(parts) ==
    LET segs == Split(parts[2], U2)
        est_name == Join(SubSeq(segs, 1, Len(segs) - 1), U2)
    IN IF ~Contains(parts[1], U2) THEN est_name
       ELSE Split(parts[1], U2)[1] \o U2 \o est_name

\* The second loop of _build_scores: the fold scores.
RECURSIVE PopulateScores(_, _)
PopulateScores(s, acc) ==
    IF acc.err # "" \/ Len(s) = 0 THEN acc
    ELSE LET parts == Split(Head(s).k, U3)
         IN IF Len(parts) # 2 THEN [err |-> "ValueError", d |-> acc.d]
            ELSE LET name == FoldName(parts)
                 IN IF name \notin DOMAIN acc.d
                    THEN [err |-> "KeyError", d |-> acc.d]
                    ELSE PopulateScores(Tail(s),
                             [err |-> "",
                              d |-> (name :> Append(acc.d[name], Head(s).v))
                                    @@ acc.d])

\* The third loop: np.mean and np.std raise TypeError on a list holding None.
AggregateScores(acc) ==
    IF acc.err # "" THEN [err |-> acc.err, map |-> <<>>]
    ELSE IF \E nm \in DOMAIN acc.d : NoScore \in Range(acc.d[nm])
    THEN [err |-> "TypeError", map |-> <<>>]
    ELSE [err |-> "", map |-> [nm \in DOMAIN acc.d |-> MeanStd(acc.d[nm])]]

\* BaseEstimator._build_scores(s) with self.layer.n_pred = n_pred.
BuildScores(s, n_pred) ==
    LET n == IF n_pred < Len(s) THEN n_pred ELSE Len(s)
    IN AggregateScores(
           PopulateScores(SubSeq(s, n + 1, Len(s)),
                          SeedScores(s, n, [err |-> "", d |-> <<>>])))

\* The key _assemble gives an estimator's score.
ScoreKey(case, name) == (IF case # None THEN FmtS(case) \o U3 ELSE U3) \o name

(***************************************************************************)
(* A fit pass: BaseEstimator.fit with the tasks it submits.                *)
(*                                                                         *)
(* The executor (joblib's Parallel) hands the tasks of a batch to NJobs    *)
(* workers in the order of the generator, returns when every task has      *)
(* returned, and raises in fit as soon as a task has raised.  A task takes *)
(* one step per access to the cache or to P.                               *)
(***************************************************************************)
\* The scorer of a layer: None, or a function that returns a score, or one
\* that raises on the first fold; and the layer's cls, 'full' or another.
Scoring ==
    {<<"none", "stack">>, <<"ok", "stack">>, <<"flaky", "stack">>,
     <<"flaky", "full">>}

Layers ==
    {[cases |-> c, ninst |-> n, K |-> k, prep |-> p, scorer |-> sc[1],
      cls |-> sc[2]] :
        c \in CaseLists, n \in 0..MaxInst, k \in 1..MaxFolds,
        p \in BOOLEAN, sc \in Scoring}

\* An engine on a layer: the layer, the dual flag and the executor's
\* n_jobs; fits counts the fit calls made so far, fitted tells whether one
\* of them has returned without raising.
Configs ==
    [layer : Layers, dual : BOOLEAN, jobs : {NJobs}, fits : {1},
     fitted : {FALSE}]

\* The same engines behind a sequential executor (n_jobs = 1).
LayerConfigs ==
    [layer : Layers, dual : BOOLEAN, jobs : {1}, fits : {1},
     fitted : {FALSE}]

\* self.t and self.e (one element per estimator) of every layer.
TransTaskTable == [l \in Layers |-> TransTasks(l)]

EstTaskTable == [l \in Layers |-> EstTasks(l)]

TT == TransTaskTable[cfg.layer]

ET == EstTaskTable[cfg.layer]

\* X and y of fit: row i of X carries the label i.
DataX == Arange(0, NRows(cfg.layer))

\* Artifacts.  A fitted transformer list is told by the task that fitted
\* it; the tuple (inst_name, inst, idx, s) of an estimator by the task that
\* built it (which fixes inst_name and idx), the transformer list inst was
\* fitted behind (tr: the transformer task, 0 for the empty list) and s.
TransArtifact(j) == [kind |-> "t", by |-> j, tr |-> 0, s |-> NoScore]

EstArtifact(j, tr, sc) == [kind |-> "e", by |-> j, tr |-> tr, s |-> sc]

NoLocals == [tr |-> -1, s |-> NoScore, sraised |-> FALSE, err |-> ""]

LayerUnset ==
    [estimators_ |-> <<>>, preprocessing_ |-> <<>>, scores_ |-> <<>>]

\* The bounded-wait and pure-call variables take no part in a fit pass.
WaitIdle ==
    /\ wcfg = [s |-> 1, lim |-> 0, raise |-> TRUE, writer |-> FALSE]
    /\ wpc = "off" /\ now = 0 /\ ts = 0 /\ wraise = TRUE /\ warns = 0
    /\ wfile = FALSE /\ wlog = <<>>

PureIdle == arg = <<>> /\ res = <<>> /\ ppc = "off"

FitInitOver(C) ==
    /\ cfg \in C
    /\ phase = "start"
    /\ tpc = [j \in 1..Len(TT) |-> "idle"]
    /\ epc = [j \in 1..Len(ET) |-> "idle"]
    /\ eloc = [j \in 1..Len(ET) |-> NoLocals]
    /\ cache = {}
    /\ wrote = {}
    /\ pbuf = {}
    /\ lstate = LayerUnset

FitInit == FitInitOver(Configs)

Active(pc) == pc \notin {"idle", "done", "failed"}

Busy ==
    Cardinality({j \in DOMAIN tpc : Active(tpc[j])}) +
    Cardinality({j \in DOMAIN epc : Active(epc[j])})

\* A task of the running batch has raised; the executor hands out no
\* further task.
Raised ==
    \/ \E j \in DOMAIN tpc : tpc[j] = "failed"
    \/ \E j \in DOMAIN epc : epc[j] = "failed"

\* fit, up to its first parallel(..) call.  With dual unset the generator
\* is built over _wrap(self.t) + self.e, and _wrap iterates self.t.  An
\* earlier call on the layer has returned: its record is dropped.
FitStart ==
    /\ phase = "start"
    /\ phase' = IF cfg.dual
                THEN (IF cfg.layer.prep THEN "trans" ELSE "est")
                ELSE (IF cfg.layer.prep THEN "comb" ELSE "failed")
    /\ arg' = <<>> /\ res' = <<>> /\ ppc' = "off"
    /\ UNCHANGED <<cfg, tpc, epc, eloc, cache, wrote, pbuf, lstate, waitVars>>

\* A worker takes the next transformer task: fit_trans slices its data.
TransBegin(j) ==
    /\ phase \in {"trans", "comb"}
    /\ tpc[j] = "idle"
    /\ \A i \in 1..(j - 1) : tpc[i] # "idle"
    /\ Busy < cfg.jobs
    /\ ~Raised
    /\ tpc' = [tpc EXCEPT ![j] = "run"]
    /\ UNCHANGED <<cfg, phase, epc, eloc, cache, wrote, pbuf, lstate, waitVars, pureVars>>

\* fit_trans fits every step and writes the list to the cache.
TransSave(j) ==
    /\ phase \in {"trans", "comb"}
    /\ tpc[j] = "run"
    /\ tpc' = [tpc EXCEPT ![j] = "done"]
    /\ cache' = Put(cache, TransKey(TT[j].case), TransArtifact(j))
    /\ wrote' = wrote \cup {[role |-> "t", task |-> j]}
    /\ UNCHANGED <<cfg, phase, epc, eloc, pbuf, lstate, waitVars, pureVars>>

\* A step of the pipeline raises in fit or transform.
TransRaise(j) ==
    /\ phase \in {"trans", "comb"}
    /\ tpc[j] = "run"
    /\ tpc' = [tpc EXCEPT ![j] = "failed"]
    /\ UNCHANGED <<cfg, phase, epc, eloc, cache, wrote, pbuf, lstate, waitVars, pureVars>>

\* The keyword arguments fit hands to _fit, and what the task routines
\* declare: _fit keeps the arguments named in f.__code__.co_varnames and
\* calls f, which raises TypeError when a required one is missing.
FitKwargs ==
    {"dir", "case", "inst_name", "inst", "x", "y", "pred", "idx", "name",
     "raise_on_exception", "preprocess", "ivals", "scorer"}

FitEstRequired ==
    {"dir", "case", "inst_name", "inst", "x", "y", "pred", "idx",
     "raise_on_exception", "preprocess", "name", "ivals", "attr"}

FitEstVarnames ==
    FitEstRequired \cup
    {"scorer", "n", "xtrain", "ytrain", "f", "tr_list", "tr_name", "tr",
     "tei", "col", "xtest", "ytest", "p", "s"}

\* Whether the call of fit_est goes through: directly with every argument
\* in dual mode, through _fit otherwise.
FitEstCallOk(dual) ==
    dual \/ FitEstRequired \subseteq (FitKwargs \cap FitEstVarnames)

\* A worker takes the next estimator task.  fit_est slices the training
\* rows and loads the transformer list: _load_trans returns it when the
\* file is there, and starts to wait for it otherwise.
EstBegin(j) ==
    /\ phase \in {"est", "comb"}
    /\ epc[j] = "idle"
    /\ \A i \in DOMAIN tpc : tpc[i] # "idle"
    /\ \A i \in 1..(j - 1) : epc[i] # "idle"
    /\ Busy < cfg.jobs
    /\ ~Raised
    /\ LET key == TransKey(ET[j].case)
       IN IF ~FitEstCallOk(cfg.dual)
          THEN /\ epc' = [epc EXCEPT ![j] = "failed"]
               /\ eloc' = [eloc EXCEPT ![j].err = "TypeError"]
          ELSE IF ~cfg.layer.prep
          THEN /\ epc' = [epc EXCEPT ![j] = "loaded"]
               /\ eloc' = [eloc EXCEPT ![j].tr = 0]
          ELSE IF Exists(cache, key)
          THEN /\ epc' = [epc EXCEPT ![j] = "loaded"]
               /\ eloc' = [eloc EXCEPT ![j].tr = Load(cache, key).by]
          ELSE /\ epc' = [epc EXCEPT ![j] = "waiting"]
               /\ eloc' = eloc
    /\ UNCHANGED <<cfg, phase, tpc, cache, wrote, pbuf, lstate,
                   waitVars, pureVars>>

\* fit_est transforms, fits and, with a test partition, predicts and
\* assigns the predictions into P.
EstFit(j) ==
    /\ phase \in {"est", "comb"}
    /\ epc[j] = "loaded"
    /\ LET t == ET[j]
           xtest == SliceArray(DataX, DataX, t.tei, 0)
           a == AssignPredictions(PRows(cfg.layer), PCols(cfg.layer),
                                  Len(xtest.x), 0, t.tei, t.col,
                                  Len(DataX))
       IN IF t.tei = NoIdx
          THEN /\ epc' = [epc EXCEPT ![j] = "assigned"]
               /\ UNCHANGED <<eloc, pbuf>>
          ELSE IF xtest.err # "" \/ a.err # ""
          THEN /\ epc' = [epc EXCEPT ![j] = "failed"]
               /\ eloc' = [eloc EXCEPT ![j].err =
                              IF xtest.err # "" THEN xtest.err ELSE a.err]
               /\ pbuf' = pbuf
          ELSE /\ epc' = [epc EXCEPT ![j] = "assigned"]
               /\ pbuf' = pbuf \cup
                          {[r |-> w.r, c |-> w.c, by |-> j, k |-> w.k,
                            j |-> w.j] : w \in a.cells}
               /\ eloc' = eloc
    /\ UNCHANGED <<cfg, phase, tpc, cache, wrote, lstate,
                   waitVars, pureVars>>

\* The estimator raises in fit or in predict.
EstRaise(j) ==
    /\ phase \in {"est", "comb"}
    /\ epc[j] = "loaded"
    /\ epc' = [epc EXCEPT ![j] = "failed"]
    /\ eloc' = [eloc EXCEPT ![j].err = "FitError"]
    /\ UNCHANGED <<cfg, phase, tpc, cache, wrote, pbuf, lstate,
                   waitVars, pureVars>>

ScorerRaises(j) == cfg.layer.scorer = "flaky" /\ ET[j].fold = 0

\* What the try block around scorer(ytest, p) leaves in s: the score, or
\* None when the call raised (as it does when scorer is None).
ScoreOutcome(j) ==
    IF ET[j].tei = NoIdx THEN NoScore
    ELSE IF cfg.layer.scorer = "none" \/ ScorerRaises(j) THEN NoScore
    ELSE j % (MaxScore + 1)

\* fit_est scores the predictions and writes (inst_name, inst, idx, s).
EstSave(j) ==
    /\ phase \in {"est", "comb"}
    /\ epc[j] = "assigned"
    /\ eloc' = [eloc EXCEPT ![j].s = ScoreOutcome(j),
                            ![j].sraised = ET[j].tei # NoIdx /\ ScorerRaises(j)]
    /\ cache' = Put(cache, EstKey(ET[j].case, ET[j].name),
                    EstArtifact(j, eloc[j].tr, ScoreOutcome(j)))
    /\ epc' = [epc EXCEPT ![j] = "done"]
    /\ wrote' = wrote \cup {[role |-> "e", task |-> j]}
    /\ UNCHANGED <<cfg, phase, tpc, pbuf, lstate, waitVars, pureVars>>

\* The first parallel(..) returning as soon as one fit_trans is done.
TransBatchDoneEarly ==
    /\ phase = "trans"
    /\ \E j \in DOMAIN tpc : tpc[j] = "done"
    /\ phase' = "est"
    /\ UNCHANGED <<cfg, tpc, epc, eloc, cache, wrote, pbuf, lstate,
                   waitVars, pureVars>>

\* The first parallel(..) of dual mode has returned: every fit_trans is done.
TransBatchDone ==
    /\ phase = "trans"
    /\ \A j \in DOMAIN tpc : tpc[j] = "done"
    /\ phase' = "est"
    /\ UNCHANGED <<cfg, tpc, epc, eloc, cache, wrote, pbuf, lstate,
                   waitVars, pureVars>>

\* fit ending on a raised task with the layer's slots cleared.
BatchRaiseClears ==
    /\ phase \in {"trans", "est", "comb"}
    /\ Raised
    /\ phase' = "failed"
    /\ lstate' = LayerUnset
    /\ UNCHANGED <<cfg, tpc, epc, eloc, cache, wrote, pbuf,
                   waitVars, pureVars>>

\* A task has raised: parallel(..) raises in fit, which ends there.
BatchRaise ==
    /\ phase \in {"trans", "est", "comb"}
    /\ Raised
    /\ phase' = "failed"
    /\ UNCHANGED <<cfg, tpc, epc, eloc, cache, wrote, pbuf, lstate,
                   waitVars, pureVars>>

\* _assemble(dir, self.t, 't')
AssembleT ==
    IF ~cfg.layer.prep THEN [none |-> TRUE, list |-> <<>>]
    ELSE [none |-> FALSE,
          list |-> [j \in 1..Len(TT) |->
                       [case |-> TT[j].case,
                        val |-> Load(cache, TransKey(TT[j].case))]]]

\* The estimators and the scores collected from the last task to the first.
AssembleEReversed ==
    LET n == Len(ET)
        file(j) == Load(cache, EstKey(ET[n + 1 - j].case, ET[n + 1 - j].name))
    IN [ests |-> [j \in 1..n |->
                     [case |-> ET[n + 1 - j].case, name |-> ET[file(j).by].name,
                      by |-> file(j).by, tr |-> file(j).tr,
                      tei |-> ET[file(j).by].tei, col |-> ET[file(j).by].col]],
        scores |-> [j \in 1..n |->
                       [k |-> ScoreKey(ET[n + 1 - j].case, ET[n + 1 - j].name),
                        v |-> file(j).s]]]

\* _assemble(dir, self.e, 'e'): the estimators and the scores, in the order
\* of self.e.
AssembleE ==
    [ests |-> [j \in 1..Len(ET) |->
                  LET a == Load(cache, EstKey(ET[j].case, ET[j].name))
                  IN [case |-> ET[j].case, name |-> ET[a.by].name,
                      by |-> a.by, tr |-> a.tr, tei |-> ET[a.by].tei,
                      col |-> ET[a.by].col]],
     scores |-> [j \in 1..Len(ET) |->
                    [k |-> ScoreKey(ET[j].case, ET[j].name),
                     v |-> Load(cache, EstKey(ET[j].case, ET[j].name)).s]]]

\* The last parallel(..) has returned and BaseEstimator._assemble stores
\* the artifacts in the layer; _build_scores runs last and may raise.
FitAssemble ==
    /\ phase \in {"est", "comb"}
    /\ \A j \in DOMAIN tpc : tpc[j] = "done"
    /\ \A j \in DOMAIN epc : epc[j] = "done"
    /\ LET e == AssembleE
           sc == BuildScores(e.scores, NPred(cfg.layer))
           scoring == cfg.layer.scorer # "none" /\ cfg.layer.cls # "full"
       IN /\ lstate' = [preprocessing_ |-> <<AssembleT>>,
                        estimators_ |-> <<e.ests>>,
                        scores_ |-> IF scoring /\ sc.err = ""
                                    THEN <<sc.map>> ELSE lstate.scores_]
          /\ phase' = IF scoring /\ sc.err # "" THEN "failed" ELSE "done"
          /\ cfg' = [cfg EXCEPT !.fitted = @ \/ ~(scoring /\ sc.err # "")]
    /\ UNCHANGED <<tpc, epc, eloc, cache, wrote, pbuf, waitVars, pureVars>>

Next ==
    \/ FitStart
    \/ \E j \in DOMAIN tpc : TransBegin(j)
    \/ \E j \in DOMAIN tpc : TransSave(j)
    \/ \E j \in DOMAIN tpc : TransRaise(j)
    \/ \E j \in DOMAIN epc : EstBegin(j)
    \/ \E j \in DOMAIN epc : EstFit(j)
    \/ \E j \in DOMAIN epc : EstRaise(j)
    \/ \E j \in DOMAIN epc : EstSave(j)
    \/ TransBatchDone
    \/ BatchRaise
    \/ FitAssemble

Init == FitInit /\ WaitIdle /\ PureIdle

Spec == Init /\ [][Next]_vars

(***************************************************************************)
(* predict and transform on the layer, and _retrieve.  A call is made      *)
(* while no fit is running; arg names the call, res holds what it          *)
(* retrieved, the tasks it submitted, the cells of P they wrote and the    *)
(* exception it raised.                                                    *)
(***************************************************************************)
\* BaseEstimator._check_fitted: check_is_fitted raises NotFittedError when
\* the layer has no estimators_ attribute.
CheckFitted(ls) ==
    IF ls.estimators_ = <<>> THEN "NotFittedError"
    ELSE IF Len(ls.estimators_[1]) = 0 THEN "NotFittedError"
    ELSE ""

\* dict(pairs): a later pair replaces an earlier one of the same key.
Dict(pairs) ==
    [k \in {pairs[i].case : i \in DOMAIN pairs} |->
        pairs[CHOOSE i \in DOMAIN pairs :
                  /\ pairs[i].case = k
                  /\ \A j \in DOMAIN pairs : j > i => pairs[j].case # k].val]

Modes == {"full", "fold", "test"}

\* _retrieve handing out every estimator and every pipeline in both modes.
RetrieveAll(ls, layer, s) ==
    IF s \notin {"full", "fold"}
    THEN [err |-> "ValueError", ests |-> <<>>, none |-> TRUE, prep |-> <<>>]
    ELSE IF ls.estimators_ = <<>>
    THEN [err |-> "AttributeError", ests |-> <<>>, none |-> TRUE,
          prep |-> <<>>]
    ELSE [err |-> "", ests |-> ls.estimators_[1],
          none |-> ls.preprocessing_[1].none,
          prep |-> IF ls.preprocessing_[1].none THEN <<>>
                   ELSE Dict(ls.preprocessing_[1].list)]

\* BaseEstimator._retrieve(s).  none: prep is None.
Retrieve(ls, layer, s) ==
    LET n_pred == NPred(layer)
        n_prep == IF NPrep(layer) > 1 THEN NPrep(layer) ELSE 1
        bad(e) == [err |-> e, ests |-> <<>>, none |-> TRUE, prep |-> <<>>]
    IN IF s \notin {"full", "fold"} THEN bad("ValueError")
       ELSE IF ls.estimators_ = <<>> THEN bad("AttributeError")
       ELSE LET ests == ls.estimators_[1]
                pre == ls.preprocessing_[1]
                lo == IF s = "full" THEN 0 ELSE n_pred
                hi == IF s = "full" THEN n_pred ELSE Len(ests)
                plo == IF s = "full" THEN 0 ELSE n_prep
                phi == IF s = "full" THEN n_prep ELSE Len(pre.list)
            IN [err |-> "", ests |-> PySlice(ests, lo, hi), none |-> pre.none,
                prep |-> IF pre.none THEN <<>>
                         ELSE Dict(PySlice(pre.list, plo, phi))]

\* The task of predict / transform for every retrieved estimator, with the
\* transformer list it is handed (0: the empty list).
CallTasks(got) ==
    [j \in 1..Len(got.ests) |->
        [by |-> got.ests[j].by, tei |-> got.ests[j].tei,
         col |-> got.ests[j].col,
         tr |-> IF got.none THEN 0 ELSE got.prep[got.ests[j].case].by]]

\* prep[case] raises KeyError for a case the mapping does not hold.
CallKeyError(got) ==
    ~got.none /\ \E j \in 1..Len(got.ests) :
                    got.ests[j].case \notin DOMAIN got.prep

NoCall(op, e) ==
    [op |-> op, err |-> e, tasks |-> <<>>, cells |-> {},
     got |-> [err |-> e, ests |-> <<>>, none |-> TRUE, prep |-> <<>>]]

Quiet == phase \in {"start", "done", "failed"}

\* BaseEstimator.predict(X, P, parallel): predict_est writes pred[:, col].
Predict ==
    /\ Quiet
    /\ arg' = [op |-> "predict"]
    /\ ppc' = "done"
    /\ LET e == CheckFitted(lstate)
           got == Retrieve(lstate, cfg.layer, "full")
       IN res' = IF e # "" THEN NoCall("predict", e)
                 ELSE IF CallKeyError(got)
                 THEN [NoCall("predict", "KeyError") EXCEPT !.got = got]
                 ELSE [op |-> "predict", err |-> "", got |-> got,
                       tasks |-> CallTasks(got),
                       cells |-> {[r |-> r, c |-> CallTasks(got)[j].col,
                                   by |-> CallTasks(got)[j].by] :
                                     r \in 0..(NRows(cfg.layer) - 1),
                                     j \in 1..Len(got.ests)}]
    /\ UNCHANGED <<fitVars, waitVars>>

\* BaseEstimator.transform(X, P, parallel): predict_fold_est slices X with
\* tei and assigns the predictions into P.
Transform ==
    /\ Quiet
    /\ arg' = [op |-> "transform"]
    /\ ppc' = "done"
    /\ LET e == CheckFitted(lstate)
           got == Retrieve(lstate, cfg.layer, "fold")
           ts_ == CallTasks(got)
           a(j) == AssignPredictions(PRows(cfg.layer), PCols(cfg.layer),
                       Len(SliceArray(DataX, NoArr, ts_[j].tei, 0).x), 0,
                       ts_[j].tei, ts_[j].col, Len(DataX))
       IN res' = IF e # "" THEN NoCall("transform", e)
                 ELSE IF CallKeyError(got)
                 THEN [NoCall("transform", "KeyError") EXCEPT !.got = got]
                 ELSE [op |-> "transform",
                       err |-> IF \E j \in 1..Len(ts_) : a(j).err # ""
                               THEN "IndexError" ELSE "",
                       got |-> got, tasks |-> ts_,
                       cells |-> UNION {{[r |-> w.r, c |-> w.c,
                                          by |-> ts_[j].by] : w \in a(j).cells} :
                                            j \in 1..Len(ts_)}]
    /\ UNCHANGED <<fitVars, waitVars>>

\* A call of _retrieve(s) on the layer.
RetrieveCall ==
    /\ Quiet
    /\ \E m \in Modes :
          /\ arg' = [op |-> "_retrieve", s |-> m]
          /\ res' = [NoCall("_retrieve", Retrieve(lstate, cfg.layer, m).err)
                       EXCEPT !.got = Retrieve(lstate, cfg.layer, m)]
    /\ ppc' = "done"
    /\ UNCHANGED <<fitVars, waitVars>>

\* A further fit call on the layer, with a fresh cache directory and a
\* fresh P: the layer keeps what the earlier calls left in it.
Refit ==
    /\ phase \in {"done", "failed"}
    /\ cfg.fits < MaxFits
    /\ cfg' = [cfg EXCEPT !.fits = @ + 1]
    /\ phase' = "start"
    /\ tpc' = [j \in DOMAIN tpc |-> "idle"]
    /\ epc' = [j \in DOMAIN epc |-> "idle"]
    /\ eloc' = [j \in DOMAIN eloc |-> NoLocals]
    /\ cache' = {} /\ wrote' = {} /\ pbuf' = {}
    /\ arg' = <<>> /\ res' = <<>> /\ ppc' = "off"
    /\ UNCHANGED <<lstate, waitVars>>

LayerNext ==
    \/ Next
    \/ Refit
    \/ Predict
    \/ Transform
    \/ RetrieveCall

InitLayer == FitInitOver(LayerConfigs) /\ WaitIdle /\ PureIdle

\* The calls made on a layer through its engine, one after the other.
SpecLayer == InitLayer /\ [][LayerNext]_vars

(***************************************************************************)
(* Properties of the calls on a layer.  While ppc = "done" the layer is as *)
(* the recorded call found it: only a fit changes it, and a fit drops the  *)
(* record.                                                                 *)
(***************************************************************************)
\* C13: a predict or transform call made before any fit call has returned
\* without raising, or on a layer whose estimators_ is an empty list, fails
\* with NotFittedError, submits no task and writes nothing to P.
C13_UnfittedCallFails ==
    (/\ ppc = "done" /\ arg.op \in {"predict", "transform"}
     /\ (~cfg.fitted \/ lstate.estimators_ = <<<<>>>>)) =>
        /\ res.err = "NotFittedError"
        /\ res.tasks = <<>>
        /\ res.cells = {}

\* The mode of the recorded call: predict retrieves 'full', transform
\* 'fold'.
CallMode ==
    IF arg.op = "predict" THEN "full"
    ELSE IF arg.op = "transform" THEN "fold" ELSE arg.s

\* The (case, pipeline) pairs of a retrieved mapping, and those of the
\* entries lo .. hi of preprocessing_.
PrepPairs(d) == {<<k, d[k]>> : k \in DOMAIN d}

SlotPairs(lo, hi) ==
    {<<lstate.preprocessing_[1].list[i].case,
       lstate.preprocessing_[1].list[i].val>> :
        i \in lo..hi}

\* C18: on a layer holding fitted artifacts, 'full' retrieves exactly the
\* first n_pred estimators and the first max(n_prep, 1) preprocessing
\* entries and 'fold' exactly the others, so that predict gets a task for
\* each of the former and transform for each of the latter; prep is None in
\* both modes when the layer has no preprocessing; any other mode raises
\* ValueError and no task is submitted.
C18_RetrievePartition ==
    (ppc = "done") =>
        /\ (CallMode \notin {"full", "fold"}) =>
               (res.err = "ValueError" /\ res.tasks = <<>> /\ res.cells = {})
        /\ (/\ CallMode \in {"full", "fold"}
            /\ res.err \notin {"NotFittedError", "AttributeError"}) =>
               LET e == lstate.estimators_[1]
                   np == NPred(cfg.layer)
                   nt == IF NPrep(cfg.layer) > 1 THEN NPrep(cfg.layer) ELSE 1
                   nl == Len(lstate.preprocessing_[1].list)
                   full == CallMode = "full"
               IN /\ res.got.err = ""
                  /\ res.got.ests = (IF full THEN SubSeq(e, 1, np)
                                     ELSE SubSeq(e, np + 1, Len(e)))
                  /\ res.got.none = ~cfg.layer.prep
                  /\ cfg.layer.prep =>
                        PrepPairs(res.got.prep) =
                            (IF full THEN SlotPairs(1, nt)
                             ELSE SlotPairs(nt + 1, nl))
                  /\ (arg.op # "_retrieve" /\ res.err = "") =>
                        /\ Len(res.tasks) = Len(res.got.ests)
                        /\ \A j \in 1..Len(res.tasks) :
                              res.tasks[j].by = (IF full THEN j ELSE np + j)

\* C18's case: transform on a fitted layer of two cases with preprocessing
\* has submitted the fold tasks.
C18_Witness ==
    /\ ppc = "done" /\ arg.op = "transform" /\ res.err = ""
    /\ cfg.layer.prep /\ Len(cfg.layer.cases) = 2
    /\ Len(res.tasks) >= 2 /\ res.cells # {}

\* A step that changes a result slot of the layer is the last step of a fit
\* call, taken when every task of every batch has returned.
C14_Step ==
    (lstate' # lstate) =>
        /\ phase \in {"est", "comb"} /\ phase' \in {"done", "failed"}
        /\ ~Raised
        /\ \A j \in DOMAIN tpc : tpc[j] = "done"
        /\ \A j \in DOMAIN epc : epc[j] = "done"

\* C14: estimators_, preprocessing_ and scores_ change only at the end of a
\* fit call, after every submitted batch has completed: no task step and no
\* predict or transform call changes them, and a fit call in which a task
\* raised leaves them as they were before the call.
C14_SlotsOnlyAtEnd == [][C14_Step]_vars

\* C14's case: a second fit call on a fitted layer has ended on a raised
\* task.
C14_Witness ==
    /\ phase = "failed" /\ Raised /\ cfg.fits = 2
    /\ lstate.estimators_ # <<>>

(***************************************************************************)
(* Properties of a fit pass.                                               *)
(***************************************************************************)
\* The transformer task generated for the case and fold of estimator task j.
TransOf(j) ==
    CHOOSE i \in DOMAIN TT : TT[i].ci = ET[j].ci /\ TT[i].fold = ET[j].fold

\* Estimator task j has transformed its data and fitted its estimator.
HasFitted(j) == epc[j] \in {"assigned", "done"}

\* C1: with preprocessing, an estimator task that has transformed and fitted
\* did so after the transformer task of its own (case, fold) had written its
\* artifact, and the transformer list it used is the one that task wrote.
C1_OwnTransformerUsed ==
    cfg.layer.prep =>
        \A j \in DOMAIN epc :
            HasFitted(j) =>
                tpc[TransOf(j)] = "done" /\ eloc[j].tr = TransOf(j)

C6_Layer ==
    /\ cfg.layer.cases = <<None>> /\ ~cfg.layer.prep
    /\ cfg.layer.ninst = 1 /\ cfg.layer.K >= 2

EstFiles == {f \in cache : f.val.kind = "e"}

\* The tasks that wrote cell (r, c) of P.
Writers(r, c) == {w \in pbuf : w.r = r /\ w.c = c}

\* Row r of X lies in the test partition of estimator task j.
InTest(j, r) ==
    /\ ET[j].tei.kind = "range"
    /\ ET[j].tei.t[1] <= r /\ r < ET[j].tei.t[2]

\* C6: the fit of that layer (estimator batch of dual mode) leaves exactly
\* 1 + K estimator artifacts; the full-data task writes nothing to P, and
\* every row of the estimator's column is written exactly once, by the fold
\* task whose test partition contains the row.
C6_EndToEnd ==
    (C6_Layer /\ cfg.dual) =>
        /\ \A w \in pbuf : ET[w.by].tei # NoIdx
        /\ (\A j \in DOMAIN epc : epc[j] = "done") =>
              /\ Cardinality(EstFiles) = 1 + cfg.layer.K
              /\ \A r \in 0..(PRows(cfg.layer) - 1) :
                    /\ Cardinality(Writers(r, 0)) = 1
                    /\ \A w \in Writers(r, 0) : InTest(w.by, r)

C6_Witness == C6_Layer /\ cfg.dual /\ phase = "done"

\* The key a task writes.
KeyOf(w) ==
    IF w.role = "t" THEN TransKey(TT[w.task].case)
    ELSE EstKey(ET[w.task].case, ET[w.task].name)

\* C7: no cache key is written by two tasks.
C7_SingleWriterPerKey ==
    \A w1, w2 \in wrote : KeyOf(w1) = KeyOf(w2) => w1 = w2

\* C8: when the scorer raised in fold tasks and nothing else raised, every
\* such task that has returned has assigned its predictions and written its
\* artifact with score None, and the fit call does not fail.
C8_ScorerFailureContained ==
    ((\E j \in DOMAIN epc : eloc[j].sraised) /\ ~Raised) =>
        /\ phase # "failed"
        /\ \A j \in DOMAIN epc :
              eloc[j].sraised =>
                  /\ epc[j] = "done"
                  /\ \E w \in pbuf : w.by = j
                  /\ Load(cache, EstKey(ET[j].case, ET[j].name)).s = NoScore

\* C17: after a fit call that returned, estimators_ has one entry per
\* estimator task in the order the tasks were generated, entry j being the
\* tuple task j wrote: the first n_pred entries are the full-data fits
\* (test index None), the others fold fits; and the score sequence of
\* _assemble has, at place j, the key and the score of task j.  No order of
\* completion of the tasks changes this.
C17_AssembledInTaskOrder ==
    (phase = "done") =>
        LET e == lstate.estimators_[1]
        IN /\ Len(e) = Len(ET)
           /\ Len(AssembleE.scores) = Len(ET)
           /\ \A j \in 1..Len(ET) :
                 /\ e[j].by = j
                 /\ e[j].case = ET[j].case /\ e[j].name = ET[j].name
                 /\ e[j].tei = ET[j].tei /\ e[j].col = ET[j].col
                 /\ (j <= NPred(cfg.layer)) <=> (e[j].tei = NoIdx)
                 /\ AssembleE.scores[j].k = ScoreKey(ET[j].case, ET[j].name)
                 /\ AssembleE.scores[j].v = eloc[j].s

\* C17's case: a layer of two cases and two folds fitted by two workers,
\* with scores.
C17_Witness ==
    /\ phase = "done" /\ cfg.jobs >= 2
    /\ Len(cfg.layer.cases) = 2 /\ cfg.layer.K = 2 /\ cfg.layer.ninst >= 1
    /\ lstate.scores_ # <<>>

\* A transformer or an estimator raised in its own fit, transform or
\* predict.
UnitFailed ==
    \/ \E j \in DOMAIN tpc : tpc[j] = "failed"
    \/ \E j \in DOMAIN eloc : eloc[j].err = "FitError"

\* C16: with dual unset and no failing unit, every submitted task is called
\* with the arguments its routine requires and the fit call does not fail
\* (it ends as the call with dual set does: assembled, phase "done").
C16_CombinedAsDual ==
    (~cfg.dual /\ ~UnitFailed) =>
        /\ phase # "failed"
        /\ \A j \in DOMAIN eloc : eloc[j].err # "TypeError"

(***************************************************************************)
(* The bounded wait: one call of _load_trans(dir, case, ivals,             *)
(* raise_on_exception), next to a task that may write the awaited file.    *)
(* The clock counts ticks; sleep(s) takes s ticks or more, every other     *)
(* statement takes none.                                                   *)
(***************************************************************************)
IdleConfig ==
    [layer |-> [cases |-> <<None>>, ninst |-> 1, K |-> 1, prep |-> FALSE,
                scorer |-> "none", cls |-> "stack"],
     dual |-> TRUE, jobs |-> 1, fits |-> 0, fitted |-> FALSE]

\* The fit-pass variables take no part in a wait or in a pure call.
FitIdle ==
    /\ cfg = IdleConfig /\ phase = "off"
    /\ tpc = <<>> /\ epc = <<>> /\ eloc = <<>>
    /\ cache = {} /\ wrote = {} /\ pbuf = {} /\ lstate = LayerUnset

\* ivals = (s, lim), the caller's raise_on_exception, and whether some task
\* is going to write the file.
WaitConfigs ==
    [s : 1..MaxIval, lim : 0..MaxLim, raise : BOOLEAN, writer : BOOLEAN]

WaitInit ==
    /\ wcfg \in WaitConfigs
    /\ wpc = "call"
    /\ now \in 0..MaxStart
    /\ ts = 0
    /\ wraise = wcfg.raise
    /\ warns = 0
    /\ wfile = FALSE
    /\ wlog = <<>>

\* try: return pickle_load(dir); except: .. ts = time_()
LoadFirst ==
    /\ wpc = "call"
    /\ IF wfile THEN wpc' = "returned" /\ ts' = ts
       ELSE wpc' = "check" /\ ts' = now
    /\ UNCHANGED <<wcfg, now, wraise, warns, wfile, wlog, fitVars, pureVars>>

\* while not os.path.exists(dir): .. ; return pickle_load(dir)
WhileTest ==
    /\ wpc = "check"
    /\ wpc' = IF wfile THEN "returned" ELSE "sleep"
    /\ UNCHANGED <<wcfg, now, ts, wraise, warns, wfile, wlog, fitVars,
                   pureVars>>

\* sleep(s)
Sleep ==
    /\ wpc = "sleep"
    /\ \E d \in 0..MaxJitter : now' = now + wcfg.s + d
    /\ wpc' = "test"
    /\ UNCHANGED <<wcfg, ts, wraise, warns, wfile, wlog, fitVars, pureVars>>

\* What a poll leaves in the history: the clock, the timer's start, the
\* outcome, and whether the file was there.
Poll(out) == [t |-> now, ts |-> ts, out |-> out, file |-> wfile]

\* if time_() - ts > lim
ExpiredAtLimit == now - ts >= wcfg.lim

Expired == now - ts > wcfg.lim

\* .. if raise_on_exception: raise ParallelProcessingError
TimeoutRaise ==
    /\ wpc = "test" /\ Expired /\ wraise
    /\ wpc' = "failed"
    /\ wlog' = Append(wlog, Poll("raise"))
    /\ UNCHANGED <<wcfg, now, ts, wraise, warns, wfile, fitVars, pureVars>>

TimeoutWarnKeepTimer ==
    /\ wpc = "test" /\ Expired /\ ~wraise
    /\ warns' = warns + 1
    /\ wraise' = TRUE
    /\ wpc' = "check"
    /\ wlog' = Append(wlog, Poll("warn"))
    /\ UNCHANGED <<wcfg, now, ts, wfile, fitVars, pureVars>>

\* The warning branch leaving raise_on_exception as it was.
TimeoutWarnKeepFlag ==
    /\ wpc = "test" /\ Expired /\ ~wraise
    /\ warns' = warns + 1
    /\ ts' = now
    /\ wpc' = "check"
    /\ wlog' = Append(wlog, Poll("warn"))
    /\ UNCHANGED <<wcfg, now, wraise, wfile, fitVars, pureVars>>

\* .. warnings.warn(..); raise_on_exception = True; ts = time_()
TimeoutWarn ==
    /\ wpc = "test" /\ Expired /\ ~wraise
    /\ warns' = warns + 1
    /\ wraise' = TRUE
    /\ ts' = now
    /\ wpc' = "check"
    /\ wlog' = Append(wlog, Poll("warn"))
    /\ UNCHANGED <<wcfg, now, wfile, fitVars, pureVars>>

\* the limit is not reached: back to the loop's test
NoTimeout ==
    /\ wpc = "test" /\ ~Expired
    /\ wpc' = "check"
    /\ wlog' = Append(wlog, Poll("ok"))
    /\ UNCHANGED <<wcfg, now, ts, wraise, warns, wfile, fitVars, pureVars>>

\* The writing task's pickle_save returns while the wait is on.
WriterPut ==
    /\ wcfg.writer /\ ~wfile
    /\ wpc \notin {"returned", "failed"}
    /\ wfile' = TRUE
    /\ UNCHANGED <<wcfg, wpc, now, ts, wraise, warns, wlog, fitVars,
                   pureVars>>

WaitNext ==
    \/ LoadFirst
    \/ WhileTest
    \/ Sleep
    \/ TimeoutRaise
    \/ TimeoutWarn
    \/ NoTimeout
    \/ WriterPut

InitWait == FitIdle /\ WaitInit /\ PureIdle

SpecWait == InitWait /\ [][WaitNext]_vars

\* The steps of _load_trans itself.
WaitStep ==
    LoadFirst \/ WhileTest \/ Sleep \/ TimeoutRaise \/ TimeoutWarn \/ NoTimeout

\* The task calling _load_trans keeps running (its sleeps end, the clock
\* advances); the writer may or may not write.
SpecWaitFair == InitWait /\ [][WaitNext]_vars /\ WF_vars(WaitStep)

\* The clock reading the k-th poll's interval started at.
PollFrom(k) == IF k = 1 THEN wlog[1].ts ELSE wlog[k - 1].t

\* The polls before the k-th that ended in a warning.
WarnsBefore(k) == {i \in 1..(k - 1) : wlog[i].out = "warn"}

\* C2: raise_on_exception set and the file never written: no warning is
\* emitted and the wait does not return; a poll raises exactly when the time
\* since the wait began exceeds lim, which ends the wait; so the failing
\* poll is the first past lim, and it comes no later than lim plus the
\* interval of that poll (s ticks when the sleep is exact).
C2_RaiseAtFirstExpiry ==
    (wcfg.raise /\ ~wfile) =>
        /\ warns = 0
        /\ wpc # "returned"
        /\ (wpc = "failed") =>
               (Len(wlog) >= 1 /\ wlog[Len(wlog)].out = "raise")
        /\ \A k \in 1..Len(wlog) :
              LET e == wlog[k].t - wlog[1].ts
                  step == wlog[k].t - PollFrom(k)
              IN /\ wlog[k].out = (IF e > wcfg.lim THEN "raise" ELSE "ok")
                 /\ (e > wcfg.lim) =>
                        /\ k = Len(wlog) /\ wpc = "failed"
                        /\ e <= wcfg.lim + step
                        /\ (step = wcfg.s) => (e <= wcfg.lim + wcfg.s)

\* C2's case: the wait failed after a poll that found the limit not reached.
C2_Witness ==
    /\ wcfg.raise /\ ~wfile /\ wpc = "failed"
    /\ Len(wlog) >= 2 /\ wlog[1].out = "ok"

\* The state of the wait protocol.
WaitState ==
    IF wpc = "failed" THEN "Fatal"
    ELSE IF wpc = "returned" THEN "Returned"
    ELSE IF warns = 0 THEN "Waiting" ELSE "WarnedOnce"

C3_State ==
    (~wcfg.raise /\ ~wfile) =>
        /\ warns <= 1
        /\ wpc # "returned"
        /\ warns = Cardinality(WarnsBefore(Len(wlog) + 1))
        /\ (wpc = "failed") =>
               (warns = 1 /\ wlog[Len(wlog)].out = "raise")
        /\ \A k \in 1..Len(wlog) :
              LET w == WarnsBefore(k)
                  from == IF w = {} THEN wlog[1].ts
                          ELSE wlog[CHOOSE i \in w : TRUE].t
                  e == wlog[k].t - from
              IN /\ wlog[k].ts = from
                 /\ wlog[k].out = (IF e <= wcfg.lim THEN "ok"
                                   ELSE IF w = {} THEN "warn" ELSE "raise")
                 /\ (wlog[k].out = "raise") => (k = Len(wlog) /\ wpc = "failed")

C3_Step ==
    /\ warns' >= warns
    /\ (WaitState = "WarnedOnce") => (WaitState' # "Waiting" /\ wraise')
    /\ (WaitState = "Fatal") => (WaitState' = "Fatal")
    /\ (~wcfg.raise /\ WaitState = "Waiting") => (WaitState' # "Fatal")

\* C3: raise_on_exception unset and the file never written: the first poll
\* past lim emits the one warning and restarts the timer, the first poll
\* past lim on the restarted timer raises; the wait moves Waiting ->
\* WarnedOnce -> Fatal, never warns twice, never goes back to Waiting.
C3_WarnThenFatal == [](C3_State) /\ [][C3_Step]_vars

\* C3's case: the wait failed after its warning.
C3_Witness == ~wcfg.raise /\ ~wfile /\ wpc = "failed" /\ warns = 1

\* The polls so far that found the limit exceeded.
Expiries ==
    Cardinality({k \in 1..Len(wlog) : wlog[k].out \in {"warn", "raise"}})

\* C15: whatever the writer does, a call of _load_trans ends: it returns
\* the artifact or raises ParallelProcessingError, after at most one expiry
\* of the limit when raise_on_exception is set and at most two otherwise.
C15_WaitTerminates ==
    /\ [](Expiries <= (IF wcfg.raise THEN 1 ELSE 2))
    /\ [](wpc = "failed" => Expiries = (IF wcfg.raise THEN 1 ELSE 2))
    /\ <>(wpc \in {"returned", "failed"})

\* C15's case: the call returned the artifact after its one warning.
C15_Witness == wpc = "returned" /\ warns = 1 /\ Expiries = 1

(***************************************************************************)
(* The index algebra: single calls of _slice_array.                        *)
(***************************************************************************)
\* Tuples (a, b) with a <= b over 0 .. n.
Tuples(n) == {t \in (0..n) \X (0..n) : t[1] <= t[2]}

\* The index descriptors over 0 .. n: None, (a, b), ((a, b),) and
\* ((a, b), (c, d)).
Descriptors(n) ==
    {NoIdx} \cup {RangeIdx(t[1], t[2]) : t \in Tuples(n)}
            \cup {RangesIdx(<<t>>) : t \in Tuples(n)}
            \cup {RangesIdx(<<t, u>>) : t \in Tuples(n), u \in Tuples(n)}

\* Row i of x holds 10 + i, label i of y holds 20 + i.
SliceInputs ==
    {[x |-> [i \in 1..n |-> 9 + i],
      y |-> IF wy THEN [i \in 1..n |-> 19 + i] ELSE NoArr,
      idx |-> idx, r |-> r] :
        n \in 0..MaxLen, wy \in BOOLEAN, r \in 0..MaxOffset,
        idx \in Descriptors(MaxLen + MaxOffset)}

InitSlice ==
    /\ FitIdle /\ WaitIdle
    /\ arg \in SliceInputs /\ res = <<>> /\ ppc = "call"

CallSliceArray ==
    /\ ppc = "call"
    /\ res' = SliceArray(arg.x, arg.y, arg.idx, arg.r)
    /\ ppc' = "done"
    /\ UNCHANGED <<arg, fitVars, waitVars>>

SpecSlice == InitSlice /\ [][CallSliceArray]_vars

\* The ranges of a descriptor, as a sequence of tuples.
RangesOf(idx) ==
    IF idx.kind = "none" THEN <<>>
    ELSE IF idx.kind = "range" THEN <<idx.t>> ELSE idx.t

\* The indices a descriptor names.
IndexSet(idx) ==
    UNION {RangesOf(idx)[k][1]..(RangesOf(idx)[k][2] - 1) :
               k \in 1..Len(RangesOf(idx))}

\* The ranges are sorted and disjoint.
SortedDisjoint(idx) ==
    \A k \in 1..(Len(RangesOf(idx)) - 1) :
        RangesOf(idx)[k][2] <= RangesOf(idx)[k + 1][1]

\* Every range names rows of an array of L rows seen at offset r.
WithinRows(idx, r, L) ==
    \A k \in 1..Len(RangesOf(idx)) :
        /\ r <= RangesOf(idx)[k][1]
        /\ RangesOf(idx)[k][1] <= RangesOf(idx)[k][2]
        /\ RangesOf(idx)[k][2] <= r + L

\* A finite set of integers in ascending order.
RECURSIVE Sorted(_)
Sorted(S) == IF S = {} THEN <<>> ELSE <<Min(S)>> \o Sorted(S \ {Min(S)})

\* The rows x[i - r] for the indices i of S in ascending order.
RowsAt(x, S, r) == [k \in 1..Cardinality(S) |-> x[Sorted(S)[k] - r + 1]]

\* C10: slicing returns (X, y) unchanged for the descriptor None; for a
\* single range (a, b) the rows a-r .. b-r-1 in order; for sorted disjoint
\* ranges the rows of the sorted union of their indices, each minus r; y,
\* when present, with the same rows.  The descriptor names rows that exist.
C10_IndexAlgebra ==
    (ppc = "done" /\ SortedDisjoint(arg.idx)
        /\ WithinRows(arg.idx, arg.r, Len(arg.x))) =>
        /\ res.err = ""
        /\ res.x = (IF arg.idx = NoIdx THEN arg.x
                    ELSE RowsAt(arg.x, IndexSet(arg.idx), arg.r))
        /\ res.y = (IF arg.idx = NoIdx \/ arg.y = NoArr THEN arg.y
                    ELSE RowsAt(arg.y, IndexSet(arg.idx), arg.r))

\* C10's case: two sorted disjoint ranges, a row offset, labels present.
C10_Witness ==
    /\ ppc = "done" /\ arg.r > 0 /\ arg.y # NoArr
    /\ arg.idx.kind = "ranges" /\ Len(arg.idx.t) = 2
    /\ SortedDisjoint(arg.idx) /\ WithinRows(arg.idx, arg.r, Len(arg.x))
    /\ Len(res.x) >= 2 /\ arg.idx.t[1][2] < arg.idx.t[2][1]

(***************************************************************************)
(* The labels of a fit: fit aligns y with X, then a task slices (X, y)     *)
(* with an index of its entry (fit_trans with tri, fit_est with tri and    *)
(* with tei: the same call _slice_array(x, y, idx)).                       *)
(***************************************************************************)
\* The alignment keeping the leading len(X) rows of y.
RebaseHead(x, y) ==
    IF Len(y) > Len(x) THEN SubSeq(y, 1, Len(x)) ELSE y

\* if y.shape[0] > X.shape[0]: rebase = ..; y = y[rebase:]
Rebase(x, y) ==
    IF Len(y) > Len(x) THEN PySlice(y, Len(y) - Len(x), Len(y)) ELSE y

\* Row i of X holds 10 + i, label i of y holds 20 + i.
LabelInputs ==
    {[x |-> [i \in 1..n |-> 9 + i], y |-> [i \in 1..m |-> 19 + i],
      idx |-> idx] :
        n \in 1..MaxLen, m \in 0..(MaxLen + MaxExtra),
        idx \in Descriptors(MaxLen)}

InitLabels ==
    /\ FitIdle /\ WaitIdle
    /\ arg \in LabelInputs /\ res = <<>> /\ ppc = "call"

\* fit, up to the submission of its tasks.
FitRebase ==
    /\ ppc = "call"
    /\ res' = [y |-> Rebase(arg.x, arg.y)]
    /\ ppc' = "rebased"
    /\ UNCHANGED <<arg, fitVars, waitVars>>

\* A task slices the data it was handed.
TaskSlice ==
    /\ ppc = "rebased"
    /\ res' = [y |-> res.y, out |-> SliceArray(arg.x, res.y, arg.idx, 0)]
    /\ ppc' = "done"
    /\ UNCHANGED <<arg, fitVars, waitVars>>

SpecLabels == InitLabels /\ [][FitRebase \/ TaskSlice]_vars

\* len(y) - len(X)
Surplus == Len(arg.y) - Len(arg.x)

\* C12: when y has more rows than X the tasks are handed y without its
\* leading len(y) - len(X) rows, and y itself otherwise; a task's index i
\* then selects X[i] together with the original y[i + len(y) - len(X)].
C12_LabelAlignment ==
    /\ (ppc \in {"rebased", "done"}) =>
           res.y = (IF Surplus > 0
                    THEN [k \in 1..Len(arg.x) |-> arg.y[k + Surplus]]
                    ELSE arg.y)
    /\ (ppc = "done" /\ Surplus >= 0 /\ arg.idx # NoIdx
          /\ SortedDisjoint(arg.idx)
          /\ WithinRows(arg.idx, 0, Len(arg.x))) =>
           LET ix == Sorted(IndexSet(arg.idx))
           IN /\ res.out.err = ""
              /\ res.out.x = [k \in 1..Len(ix) |-> arg.x[ix[k] + 1]]
              /\ res.out.y = [k \in 1..Len(ix) |-> arg.y[ix[k] + Surplus + 1]]

\* C12's case: y three rows longer than X, sliced by a fold's two ranges.
C12_Witness ==
    /\ ppc = "done" /\ Surplus = 3
    /\ arg.idx.kind = "ranges" /\ Len(arg.idx.t) = 2
    /\ SortedDisjoint(arg.idx) /\ WithinRows(arg.idx, 0, Len(arg.x))
    /\ Len(res.out.y) >= 2

(***************************************************************************)
(* The prediction assembly: two tasks of a batch, each calling             *)
(* _assign_predictions once on the same buffer.                            *)
(***************************************************************************)
\* Tuples (a, b) with a < b over 0 .. n.
TestTuples(n) == {t \in (0..n) \X (0..n) : t[1] < t[2]}

\* Test-index descriptors over 0 .. n: (a, b), ((a, b),) and two ranges
\* ((a, b), (c, d)) in ascending order.
TestDescriptors(n) ==
    {RangeIdx(t[1], t[2]) : t \in TestTuples(n)}
        \cup {RangesIdx(<<t>>) : t \in TestTuples(n)}
        \cup {RangesIdx(<<p[1], p[2]>>) :
                  p \in {q \in TestTuples(n) \X TestTuples(n) :
                             q[1][2] <= q[2][1]}}

\* Rows of the predictions of a task: one per test index.
PredRows(tei) == Cardinality(IndexSet(tei))

\* A buffer of MaxRows rows and MaxCols columns at row offset r, the width
\* of the batch's predictions (0: 1-D), and the (tei, col) of two tasks,
\* the first the one with the lower column.
AssignInputsAt(r) ==
    {[R |-> MaxRows, C |-> MaxCols, n |-> MaxRows + r, w |-> w,
      tasks |-> <<[tei |-> t1, col |-> c[1]], [tei |-> t2, col |-> c[2]]>>] :
        w \in 0..MaxWidth,
        t1 \in TestDescriptors(MaxRows + r),
        t2 \in TestDescriptors(MaxRows + r),
        c \in {d \in (0..(MaxCols - 1)) \X (0..(MaxCols - 1)) : d[1] <= d[2]}}

InitAssign ==
    /\ FitIdle /\ WaitIdle
    /\ \E r \in 0..MaxOffset : arg \in AssignInputsAt(r)
    /\ res = <<>> /\ ppc = "call"

\* The next task's _assign_predictions(pred, p, tei, col, n).
CallAssign ==
    /\ ppc = "call"
    /\ LET t == arg.tasks[Len(res) + 1]
       IN res' = Append(res, AssignPredictions(arg.R, arg.C, PredRows(t.tei),
                                               arg.w, t.tei, t.col, arg.n))
    /\ ppc' = IF Len(res) = 1 THEN "done" ELSE "call"
    /\ UNCHANGED <<arg, fitVars, waitVars>>

SpecAssign == InitAssign /\ [][CallAssign]_vars

\* The buffer cells task k wrote.
CellsOf(k) == {<<c.r, c.c>> : c \in res[k].cells}

\* No write so far fell outside [0, rows) x [0, columns).
InBuffer ==
    \A k \in 1..Len(res) : \A c \in res[k].cells :
        0 <= c.r /\ c.r < arg.R /\ 0 <= c.c /\ c.c < arg.C

\* The column block of task k: width 1 for 1-D predictions.
ColBlock(k) ==
    arg.tasks[k].col..(arg.tasks[k].col + (IF arg.w = 0 THEN 1 ELSE arg.w) - 1)

\* Both tasks' test indices are rows of the buffer at its offset.
BothWithinRows ==
    \A k \in 1..2 : WithinRows(arg.tasks[k].tei, arg.n - arg.R, arg.R)

TestDisjoint ==
    IndexSet(arg.tasks[1].tei) \cap IndexSet(arg.tasks[2].tei) = {}

ExpectedCells(tei, col, w, r) ==
    LET rows == Sorted(IndexSet(tei))
    IN {[r |-> rows[k] - r, c |-> col + j, k |-> k - 1, j |-> j] :
            k \in 1..Len(rows), j \in 0..((IF w = 0 THEN 1 ELSE w) - 1)}

\* The test indices of task k are rows of the buffer at its offset and its
\* column block lies inside the buffer.
RegionInBuffer(k) ==
    /\ WithinRows(arg.tasks[k].tei, arg.n - arg.R, arg.R)
    /\ ColBlock(k) \subseteq 0..(arg.C - 1)

\* C11: a call of _assign_predictions whose region lies in the buffer
\* raises nothing and writes exactly the rows i - rowOffset of its test
\* indices i, in the column col for 1-D predictions and in the columns
\* col .. col + width - 1 for 2-D ones, the k-th predicted row at the k-th
\* test index; no other cell is written.
C11_AssignFrame ==
    \A k \in 1..Len(res) :
        RegionInBuffer(k) =>
            /\ res[k].err = ""
            /\ res[k].cells =
                   ExpectedCells(arg.tasks[k].tei, arg.tasks[k].col, arg.w,
                                 arg.n - arg.R)

\* C11's case: 2-D predictions assigned at a row offset through a test index
\* of two ranges.
C11_Witness ==
    /\ ppc = "done" /\ arg.w >= 2 /\ arg.n > arg.R
    /\ arg.tasks[1].tei.kind = "ranges" /\ Len(arg.tasks[1].tei.t) = 2
    /\ RegionInBuffer(1)
    /\ Cardinality(res[1].cells) = 2 * arg.w

(***************************************************************************)
(* The score aggregation: single calls of _build_scores on the score       *)
(* sequence _assemble builds from a layer's estimator list.                *)
(***************************************************************************)
\* Case lists, among them a case whose name holds '__'.
ScoreCaseLists == CaseLists \cup {<<<<"a", "_", "_", "b">>>>}

ScoreValues == (0..MaxScore) \cup {NoScore}

\* The layer, and the score of every fold: the estimator ii of fold i
\* scored (of[i + 1] + ii) % (MaxScore + 1), or None when of[i + 1] is None.
ScoreInputs ==
    {[layer |-> [cases |-> c, ninst |-> ni, K |-> k, prep |-> FALSE,
                 scorer |-> "ok", cls |-> "stack"],
      of |-> f] :
        c \in ScoreCaseLists, ni \in 1..MaxInst, k \in 0..MaxFolds,
        f \in [1..MaxFolds -> ScoreValues]}

\* The score an estimator task's artifact holds: None for a full-data fit.
ScoreOf(a, t) ==
    IF t.fold < 0 \/ a.of[t.fold + 1] = NoScore THEN NoScore
    ELSE (a.of[t.fold + 1] + t.ii) % (MaxScore + 1)

\* The sequence s of (key, score) in the order of self.e.
ScoreSeq(a) ==
    LET et == EstTasks(a.layer)
    IN [j \in 1..Len(et) |->
           [k |-> ScoreKey(et[j].case, et[j].name), v |-> ScoreOf(a, et[j])]]

InitScore ==
    /\ FitIdle /\ WaitIdle
    /\ arg \in ScoreInputs /\ res = <<>> /\ ppc = "call"

CallBuildScores ==
    /\ ppc = "call"
    /\ res' = BuildScores(ScoreSeq(arg), NPred(arg.layer))
    /\ ppc' = "done"
    /\ UNCHANGED <<arg, fitVars, waitVars>>

SpecScore == InitScore /\ [][CallBuildScores]_vars

\* The display name of a full-data entry: instanceName for the unnamed
\* case, caseName__instanceName for a named case.
DisplayName(t) == IF t.case = None THEN t.name ELSE t.case \o U2 \o t.name

\* The fold scores of the estimator of full-data task t, by fold.
FoldScores(a, t) ==
    [i \in 1..a.layer.K |-> ScoreOf(a, [fold |-> i - 1, ii |-> t.ii])]

\* C9: when every fold score is a number, the aggregation returns one key
\* per full-data entry, each with the (mean, standard deviation) of exactly
\* the fold scores of that estimator, (NaN, NaN) when it has none, and
\* raises no error.
C9_ScoreAggregation ==
    (ppc = "done" /\ \A i \in 1..arg.layer.K : arg.of[i] # NoScore) =>
        LET full == SubSeq(EstTasks(arg.layer), 1, NPred(arg.layer))
        IN /\ res.err = ""
           /\ DOMAIN res.map = {DisplayName(full[j]) : j \in 1..Len(full)}
           /\ \A j \in 1..Len(full) :
                 res.map[DisplayName(full[j])] =
                     MeanStd(FoldScores(arg, full[j]))

\* C19: for every fold entry of the score sequence, the display name the
\* second loop derives from its key is one of the names the first loop
\* seeded from the first n_pred entries, so that no append raises KeyError.
C19_FoldNamesSeeded ==
    (ppc = "done") =>
        LET s == ScoreSeq(arg)
            n == NPred(arg.layer)
            seeded == DOMAIN SeedScores(s, n, [err |-> "", d |-> <<>>]).d
        IN /\ \A j \in (n + 1)..Len(s) :
                 FoldName(Split(s[j].k, U3)) \in seeded
           /\ res.err # "KeyError"

\* C20: the bounded wait fails only while the key is absent: at the poll
\* that raises ParallelProcessingError the awaited artifact is not in the
\* cache, whatever the writer did during the sleep before it.
C20_FailsOnlyWhileAbsent ==
    /\ (wpc = "failed") => ~wfile
    /\ \A k \in 1..Len(wlog) : wlog[k].out = "raise" => ~wlog[k].file

(***************************************************************************)
(* Several waits on one layer: every estimator task of a layer with        *)
(* preprocessing calls _load_trans with the layer's flag.                  *)
(***************************************************************************)
MaxWaits == 2        \* calls of _load_trans on one layer

\* The history entry opening call n: the history is kept per call, the
\* entry remembers how the call before ended.
Begin(n) ==
    [t |-> now, ts |-> ts, out |-> "begin", file |-> wfile, n |-> n,
     prev |-> wpc]

\* The calls of _load_trans made so far.
Waits ==
    IF wpc = "off" THEN 0
    ELSE IF wlog # <<>> /\ wlog[1].out = "begin" THEN wlog[1].n
    ELSE 1

\* The next call starting with the flag the previous call ended with.
WaitAgainKeepFlag ==
    /\ wpc \in {"returned", "failed"}
    /\ Waits < MaxWaits
    /\ wpc' = "call"
    /\ wraise' = wraise
    /\ \E f \in BOOLEAN : wfile' = f
    /\ wlog' = <<Begin(Waits + 1)>>
    /\ UNCHANGED <<wcfg, now, ts, warns, fitVars, pureVars>>

\* Another estimator task's fit_est calls _load_trans(f, case, ivals,
\* raise_on_exception): the parameter is bound to the layer's flag again,
\* the file awaited may or may not be in the cache yet.
WaitAgain ==
    /\ wpc \in {"returned", "failed"}
    /\ Waits < MaxWaits
    /\ wpc' = "call"
    /\ wraise' = wcfg.raise
    /\ \E f \in BOOLEAN : wfile' = f
    /\ wlog' = <<Begin(Waits + 1)>>
    /\ UNCHANGED <<wcfg, now, ts, warns, fitVars, pureVars>>

WaitsNext == WaitNext \/ WaitAgain

SpecWaits == InitWait /\ [][WaitsNext]_vars

\* The warnings the current call has emitted.
WarnsThisWait ==
    Cardinality({k \in 1..Len(wlog) : wlog[k].out = "warn"})

\* C21: the escalation of raise_on_exception is local to one wait: the
\* layer's flag never changes, every wait starts with the layer's flag, and
\* with the flag False every wait emits exactly one warning of its own
\* before it fails (and never more than one).
C21_EscalationIsLocal ==
    /\ [][wcfg' = wcfg]_vars
    /\ [](wpc = "call" => wraise = wcfg.raise)
    /\ [](WarnsThisWait <= 1)
    /\ []((wpc = "failed" /\ ~wcfg.raise) => WarnsThisWait = 1)
    /\ []((wpc = "failed" /\ wcfg.raise) => WarnsThisWait = 0)

\* A second wait on a layer with the flag False has warned once itself,
\* after the first wait had warned and failed, and fails in turn.
C21_Witness ==
    /\ wpc = "failed" /\ ~wcfg.raise
    /\ Waits = 2 /\ warns = 2 /\ WarnsThisWait = 1
    /\ wlog[1].prev = "failed"

\* C22: a descriptor holding exactly one range, given as (a, b) or as
\* ((a, b),), is resolved by _slice_array with basic slicing
\* x[a - r : b - r] (no gather, no copy, no IndexError); only a descriptor
\* of two or more ranges takes the gather path.
C22_SingleRangeIsSliced ==
    (ppc = "done" /\ arg.idx.kind # "none") =>
        LET rs == RangesOf(arg.idx)
        IN IF Len(rs) = 1
           THEN /\ res.err = ""
                /\ ~res.copy
                /\ res.x = PySlice(arg.x, rs[1][1] - arg.r, rs[1][2] - arg.r)
                /\ res.y = IF arg.y # NoArr
                           THEN PySlice(arg.y, rs[1][1] - arg.r,
                                        rs[1][2] - arg.r)
                           ELSE NoArr
           ELSE res.copy

====
